---- MODULE Spec2Model ----
(***************************************************************************)
(* Model of the two ink! contracts of this repository:                     *)
(*   src/token/lib.rs      Token     (balances: Mapping<AccountId, u128>)  *)
(*   src/todo_list/lib.rs  TodoList  (items: Vec<TodoItem>, owner)         *)
(* The host runs one message at a time, so every message is one action.    *)
(* A panic (`expect` on a None) aborts the message; the storage the        *)
(* message leaves behind is whatever it had written before the panic.      *)
(***************************************************************************)
EXTENDS Integers, Sequences, FiniteSets, TLC

\* ---------------------------------------------------------------- bounds
\* Largest value of the balance type.  The contract uses u128; the model
\* keeps the checked arithmetic and scales the width down.
U128_MAX == 3
\* Cap on the number of stored items (Vec is unbounded in the contract).
MaxItems == 3
\* Largest index passed to mark_completed (u32 in the contract); larger
\* than MaxItems - 1 so that out-of-bounds indices occur.
MaxIndex == 4

Accounts == {"alice", "bob", "charlie"}
Amounts == 0..U128_MAX
Descriptions == {"x", "y"}
Constructors == {"new", "default"}
Indices == 0..MaxIndex

VARIABLES
    balances,   \* Token.balances : partial map AccountId -> u128
    minted,     \* history: sum of the amounts of the mint calls that completed
    credited,   \* history: accounts named as `to` by a completed mint or transfer
    call,       \* the last Token message: op, caller, to, amount, result, ret
    items,      \* TodoList.items : sequence of [description, completed]
    owner,      \* TodoList.owner
    todoBefore, \* history: items as they were before the last TodoList message
    todoCall,   \* the last TodoList message: op, caller, index, description,
                \* result, ret
    shadow      \* a second TodoList instance that receives the same messages
                \* from other callers: [items, owner]

vars == <<balances, minted, credited, call, items, owner, todoBefore, todoCall, shadow>>
tokenVars == <<balances, minted, credited, call>>
todoVars == <<items, owner, todoBefore, todoCall, shadow>>

\* ------------------------------------------------- Option and Mapping
\* Option<T> is the set of its values: {} is None, {v} is Some(v).
unwrap_or(opt, d) == IF opt = {} THEN d ELSE CHOOSE v \in opt : TRUE

checked_add(a, b) == IF a + b > U128_MAX THEN {} ELSE {a + b}

checked_sub(a, b) == IF a < b THEN {} ELSE {a - b}

\* A mapping that already holds an entry.
PrefundedMapping == [a \in {"alice"} |-> 1]

\* Mapping::new
EmptyMapping == [a \in {} |-> 0]

\* Mapping::get
get(bal, k) == IF k \in DOMAIN bal THEN {bal[k]} ELSE {}

\* Mapping::insert
insert(bal, k, v) == [a \in (DOMAIN bal) \cup {k} |-> IF a = k THEN v ELSE bal[a]]

\* ------------------------------------------------------ Token messages
\* Each message yields its outcome and the storage it leaves behind.
\* mint with a wrapping addition instead of checked_add.
mint_wrapping(bal, to, amount) ==
    LET current_balance == unwrap_or(get(bal, to), 0)
    IN  [result |-> "Ok",
         balances |-> insert(bal, to, (current_balance + amount) % (U128_MAX + 1))]

\* mint that stores the amount instead of the sum.
mint_overwrite(bal, to, amount) ==
    IF checked_add(unwrap_or(get(bal, to), 0), amount) = {}
    THEN [result |-> "Overflow", balances |-> bal]
    ELSE [result |-> "Ok", balances |-> insert(bal, to, amount)]

\* mint with a saturating addition instead of checked_add.
mint_saturating(bal, to, amount) ==
    LET current_balance == unwrap_or(get(bal, to), 0)
        sum == current_balance + amount
    IN  [result |-> "Ok",
         balances |-> insert(bal, to, IF sum > U128_MAX THEN U128_MAX ELSE sum)]

mint(bal, to, amount) ==
    LET current_balance == unwrap_or(get(bal, to), 0)
        new_balance == checked_add(current_balance, amount)
    IN  IF new_balance = {}
        THEN [result |-> "Overflow", balances |-> bal]
        ELSE [result |-> "Ok",
              balances |-> insert(bal, to, unwrap_or(new_balance, 0))]

\* balance_of that takes the entry out of the mapping while reading it.
balance_of_take(bal, account) ==
    [result |-> unwrap_or(get(bal, account), 0),
     balances |-> [a \in (DOMAIN bal) \ {account} |-> bal[a]]]

balance_of(bal, account) ==
    [result |-> unwrap_or(get(bal, account), 0), balances |-> bal]

\* transfer that credits the recipient without debiting the caller.
transfer_no_debit(bal, caller, to, amount) ==
    LET caller_balance == unwrap_or(get(bal, caller), 0)
        new_to_balance == checked_add(unwrap_or(get(bal, to), 0), amount)
    IN  IF caller_balance < amount
        THEN [result |-> "InsufficientBalance", balances |-> bal]
        ELSE IF new_to_balance = {}
        THEN [result |-> "Overflow", balances |-> bal]
        ELSE [result |-> "Ok",
              balances |-> insert(insert(bal, caller, caller_balance),
                                  to, unwrap_or(new_to_balance, 0))]

\* transfer whose sufficiency check is `<=` instead of `<`.
transfer_strict_check(bal, caller, to, amount) ==
    LET caller_balance == unwrap_or(get(bal, caller), 0)
        new_to_balance == checked_add(unwrap_or(get(bal, to), 0), amount)
    IN  IF caller_balance <= amount
        THEN [result |-> "InsufficientBalance", balances |-> bal]
        ELSE IF new_to_balance = {}
        THEN [result |-> "Overflow", balances |-> bal]
        ELSE [result |-> "Ok",
              balances |-> insert(insert(bal, caller, caller_balance - amount),
                                  to, unwrap_or(new_to_balance, 0))]

\* transfer that writes the debit before the overflow check of the credit.
transfer_debit_first(bal, caller, to, amount) ==
    LET caller_balance == unwrap_or(get(bal, caller), 0)
    IN  IF caller_balance < amount
        THEN [result |-> "InsufficientBalance", balances |-> bal]
        ELSE LET debited == insert(bal, caller, caller_balance - amount)
                 new_to_balance == checked_add(unwrap_or(get(bal, to), 0), amount)
             IN  IF new_to_balance = {}
                 THEN [result |-> "Overflow", balances |-> debited]
                 ELSE [result |-> "Ok",
                       balances |-> insert(debited, to, unwrap_or(new_to_balance, 0))]

\* transfer without the sufficiency check in front of the subtraction.
transfer_no_check(bal, caller, to, amount) ==
    LET caller_balance == unwrap_or(get(bal, caller), 0)
        new_caller_balance == checked_sub(caller_balance, amount)
        new_to_balance == checked_add(unwrap_or(get(bal, to), 0), amount)
    IN  IF new_caller_balance = {}
        THEN [result |-> "Underflow", balances |-> bal]
        ELSE IF new_to_balance = {}
        THEN [result |-> "Overflow", balances |-> bal]
        ELSE [result |-> "Ok",
              balances |->
                insert(insert(bal, caller, unwrap_or(new_caller_balance, 0)),
                       to, unwrap_or(new_to_balance, 0))]

\* transfer that pulls: it debits the recipient and credits the caller.
transfer_pull(bal, caller, to, amount) ==
    LET to_balance == unwrap_or(get(bal, to), 0)
        new_caller_balance == checked_add(unwrap_or(get(bal, caller), 0), amount)
    IN  IF to_balance < amount
        THEN [result |-> "InsufficientBalance", balances |-> bal]
        ELSE IF new_caller_balance = {}
        THEN [result |-> "Overflow", balances |-> bal]
        ELSE [result |-> "Ok",
              balances |->
                insert(insert(bal, to, to_balance - amount),
                       caller, unwrap_or(new_caller_balance, 0))]

transfer(bal, caller, to, amount) ==
    LET caller_balance == unwrap_or(get(bal, caller), 0)
    IN  IF caller_balance < amount
        THEN [result |-> "InsufficientBalance", balances |-> bal]
        ELSE LET to_balance == unwrap_or(get(bal, to), 0)
                 new_caller_balance == checked_sub(caller_balance, amount)
                 new_to_balance == checked_add(to_balance, amount)
             IN  IF new_caller_balance = {}
                 THEN [result |-> "Underflow", balances |-> bal]
                 ELSE IF new_to_balance = {}
                 THEN [result |-> "Overflow", balances |-> bal]
                 ELSE [result |-> "Ok",
                       balances |->
                         insert(insert(bal, caller, unwrap_or(new_caller_balance, 0)),
                                to, unwrap_or(new_to_balance, 0))]

\* ------------------------------------------------------- Token actions
Token_new == [balances |-> EmptyMapping]

Token_default == Token_new

TokenInit ==
    \E ctor \in Constructors :
        LET self == IF ctor = "new" THEN Token_new ELSE Token_default
        IN  /\ balances = self.balances
            /\ minted = 0
            /\ credited = {}
            /\ call = [op |-> ctor, caller |-> "alice", to |-> "alice",
                       amount |-> 0, result |-> "Ok", ret |-> 0]

Mint ==
    \E c \in Accounts, to \in Accounts, amount \in Amounts :
        LET r == mint(balances, to, amount)
        IN  /\ balances' = r.balances
            /\ minted' = IF r.result = "Ok" THEN minted + amount ELSE minted
            /\ credited' = IF r.result = "Ok" THEN credited \cup {to} ELSE credited
            /\ call' = [op |-> "mint", caller |-> c, to |-> to,
                        amount |-> amount, result |-> r.result, ret |-> 0]
            /\ UNCHANGED todoVars

BalanceOf ==
    \E c \in Accounts, account \in Accounts :
        LET r == balance_of(balances, account)
        IN  /\ balances' = r.balances
            /\ call' = [op |-> "balance_of", caller |-> c, to |-> account,
                        amount |-> 0, result |-> "Ok", ret |-> r.result]
            /\ UNCHANGED <<minted, credited>>
            /\ UNCHANGED todoVars

Transfer ==
    \E c \in Accounts, to \in Accounts, amount \in Amounts :
        LET r == transfer(balances, c, to, amount)
        IN  /\ balances' = r.balances
            /\ credited' = IF r.result = "Ok" THEN credited \cup {to} ELSE credited
            /\ call' = [op |-> "transfer", caller |-> c, to |-> to,
                        amount |-> amount, result |-> r.result, ret |-> 0]
            /\ UNCHANGED minted
            /\ UNCHANGED todoVars

\* ---------------------------------------------------- TodoList messages
TodoItem(description, completed) ==
    [description |-> description, completed |-> completed]

\* add_item that inserts at the front of the vector.
add_item_front(its, description) ==
    [result |-> "Ok", items |-> <<TodoItem(description, FALSE)>> \o its]

add_item(its, description) ==
    [result |-> "Ok", items |-> Append(its, TodoItem(description, FALSE))]

\* get_items returns a clone of the vector.
get_items(its) == [result |-> "Ok", items |-> its, ret |-> its]

\* mark_completed that indexes the vector directly: out of bounds panics.
mark_completed_indexing(its, index) ==
    IF index < Len(its)
    THEN [result |-> "Ok",
          items |-> [its EXCEPT ![index + 1].completed = TRUE]]
    ELSE [result |-> "Panic", items |-> its]

\* Vec::get_mut(index) is Some exactly when index < len; positions are
\* 0-based in the contract and 1-based in the sequence.
\* mark_completed that flips the flag instead of setting it.
mark_completed_toggle(its, index) ==
    IF index < Len(its)
    THEN [result |-> "Ok",
          items |-> [its EXCEPT ![index + 1].completed = ~@]]
    ELSE [result |-> "Ok", items |-> its]

mark_completed(its, index) ==
    IF index < Len(its)
    THEN [result |-> "Ok",
          items |-> [its EXCEPT ![index + 1].completed = TRUE]]
    ELSE [result |-> "Ok", items |-> its]

\* retain with the predicate inverted: keeps the completed items.
RECURSIVE retain_completed(_)
retain_completed(its) ==
    IF its = <<>> THEN <<>>
    ELSE IF Head(its).completed
         THEN <<Head(its)>> \o retain_completed(Tail(its))
         ELSE retain_completed(Tail(its))

\* Vec::retain(|item| !item.completed) keeps, in order, the items the
\* closure accepts.
RECURSIVE retain(_)
retain(its) ==
    IF its = <<>> THEN <<>>
    ELSE IF ~Head(its).completed
         THEN <<Head(its)>> \o retain(Tail(its))
         ELSE retain(Tail(its))

clear_completed(its) == [result |-> "Ok", items |-> retain(its)]

\* ----------------------------------------------------- TodoList actions
TodoList_new(caller) == [items |-> <<>>, owner |-> caller]

TodoList_default(caller) == TodoList_new(caller)

\* Messages that only the owner may send; any other caller is ignored.
todo_message_owner_only(self, caller, op, index, description) ==
    LET r == CASE op = "add_item" -> add_item(self.items, description)
               [] op = "mark_completed" -> mark_completed(self.items, index)
               [] op = "clear_completed" -> clear_completed(self.items)
               [] OTHER -> get_items(self.items)
    IN  [result |-> r.result,
         items |-> IF caller = self.owner THEN r.items ELSE self.items,
         owner |-> self.owner,
         ret |-> IF op = "get_items" THEN r.ret ELSE <<>>]

\* A message of the contract run on the storage `self` = [items, owner] for
\* a caller: the storage it leaves, its outcome and its return value.
todo_message(self, caller, op, index, description) ==
    LET r == CASE op = "add_item" -> add_item(self.items, description)
               [] op = "mark_completed" -> mark_completed(self.items, index)
               [] op = "clear_completed" -> clear_completed(self.items)
               [] OTHER -> get_items(self.items)
    IN  [result |-> r.result,
         items |-> r.items,
         owner |-> self.owner,
         ret |-> IF op = "get_items" THEN r.ret ELSE <<>>]

TodoInit ==
    \E c \in Accounts, c2 \in Accounts, ctor \in Constructors :
        LET self == IF ctor = "new" THEN TodoList_new(c) ELSE TodoList_default(c)
            other == IF ctor = "new" THEN TodoList_new(c2) ELSE TodoList_default(c2)
        IN  /\ items = self.items
            /\ owner = self.owner
            /\ shadow = other
            /\ todoBefore = <<>>
            /\ todoCall = [op |-> ctor, caller |-> c, index |-> 0,
                           description |-> "", result |-> "Ok", ret |-> <<>>]

\* Every message is sent to the instance by c and to the shadow instance
\* by c2.
AddItem ==
    \E c \in Accounts, c2 \in Accounts, d \in Descriptions :
        LET r == todo_message([items |-> items, owner |-> owner],
                              c, "add_item", 0, d)
            r2 == todo_message(shadow, c2, "add_item", 0, d)
        IN  /\ Len(items) < MaxItems
            /\ items' = r.items
            /\ owner' = r.owner
            /\ shadow' = [items |-> r2.items, owner |-> r2.owner]
            /\ todoBefore' = items
            /\ todoCall' = [op |-> "add_item", caller |-> c, index |-> 0,
                            description |-> d,
                            result |-> r.result, ret |-> r.ret]
            /\ UNCHANGED tokenVars

GetItems ==
    \E c \in Accounts, c2 \in Accounts :
        LET r == todo_message([items |-> items, owner |-> owner],
                              c, "get_items", 0, "")
            r2 == todo_message(shadow, c2, "get_items", 0, "")
        IN  /\ items' = r.items
            /\ owner' = r.owner
            /\ shadow' = [items |-> r2.items, owner |-> r2.owner]
            /\ todoBefore' = items
            /\ todoCall' = [op |-> "get_items", caller |-> c, index |-> 0,
                            description |-> "",
                            result |-> r.result, ret |-> r.ret]
            /\ UNCHANGED tokenVars

MarkCompleted ==
    \E c \in Accounts, c2 \in Accounts, index \in Indices :
        LET r == todo_message([items |-> items, owner |-> owner],
                              c, "mark_completed", index, "")
            r2 == todo_message(shadow, c2, "mark_completed", index, "")
        IN  /\ items' = r.items
            /\ owner' = r.owner
            /\ shadow' = [items |-> r2.items, owner |-> r2.owner]
            /\ todoBefore' = items
            /\ todoCall' = [op |-> "mark_completed", caller |-> c, index |-> index,
                            description |-> "",
                            result |-> r.result, ret |-> r.ret]
            /\ UNCHANGED tokenVars

ClearCompleted ==
    \E c \in Accounts, c2 \in Accounts :
        LET r == todo_message([items |-> items, owner |-> owner],
                              c, "clear_completed", 0, "")
            r2 == todo_message(shadow, c2, "clear_completed", 0, "")
        IN  /\ items' = r.items
            /\ owner' = r.owner
            /\ shadow' = [items |-> r2.items, owner |-> r2.owner]
            /\ todoBefore' = items
            /\ todoCall' = [op |-> "clear_completed", caller |-> c, index |-> 0,
                            description |-> "",
                            result |-> r.result, ret |-> r.ret]
            /\ UNCHANGED tokenVars

\* ------------------------------------------------------ specifications
Init == TokenInit /\ TodoInit

\* The Token contract; the TodoList instance beside it is the one alice
\* instantiated and receives no message.
InitAlice ==
    /\ Init
    /\ todoCall.op = "new"
    /\ owner = "alice"
    /\ shadow.owner = "alice"

Next == Mint \/ BalanceOf \/ Transfer

Spec == InitAlice /\ [][Next]_vars

\* The TodoList contract.
TodoNext == AddItem \/ GetItems \/ MarkCompleted \/ ClearCompleted

TodoSpec == Init /\ [][TodoNext]_vars

\* ------------------------------------------------------------- claims
\* What balance_of reports for an account in a given mapping.
Balance(bal, account) == unwrap_or(get(bal, account), 0)

RECURSIVE SumOver(_, _)
SumOver(bal, accounts) ==
    IF accounts = {} THEN 0
    ELSE LET a == CHOOSE x \in accounts : TRUE
         IN  Balance(bal, a) + SumOver(bal, accounts \ {a})

TotalSupply(bal) == SumOver(bal, Accounts)

\* C1: in every reachable state the sum of all balances equals the sum of
\* the amounts of the mint calls that completed.
C1_Conservation == TotalSupply(balances) = minted

\* C2: a transfer whose recipient is the caller, with amount <=
\* balance(caller), returns Ok and leaves every balance as it was.
C2_SelfTransferNoOp ==
    [][(/\ call'.op = "transfer"
        /\ call'.caller = call'.to
        /\ call'.amount <= Balance(balances, call'.caller))
       => (/\ call'.result = "Ok"
           /\ \A a \in Accounts : Balance(balances', a) = Balance(balances, a))]_vars

\* C3: a successful transfer of amount a by X to Y with X # Y leaves
\* balance(X) = old - a and balance(Y) = old + a.
C3_TransferMovesAmount ==
    [][(/\ call'.op = "transfer"
        /\ call'.result = "Ok"
        /\ call'.caller # call'.to)
       => (/\ Balance(balances', call'.caller)
                = Balance(balances, call'.caller) - call'.amount
           /\ Balance(balances', call'.to)
                = Balance(balances, call'.to) + call'.amount)]_vars

\* Scaled scenario: mint 3 to alice, alice transfers 1 to bob.
C3_Witness ==
    /\ call.op = "transfer" /\ call.result = "Ok"
    /\ call.caller = "alice" /\ call.to = "bob" /\ call.amount = 1
    /\ minted = 3
    /\ Balance(balances, "alice") = 2
    /\ Balance(balances, "bob") = 1

\* C4: transfer returns InsufficientBalance exactly when amount >
\* balance(caller), for any recipient, and then the mapping is unchanged.
C4_InsufficientBalance ==
    [][call'.op = "transfer"
       => (/\ (call'.result = "InsufficientBalance")
                <=> (call'.amount > Balance(balances, call'.caller))
           /\ (call'.result = "InsufficientBalance") => (balances' = balances))]_vars

\* A rejected self-transfer by an account with no entry, on a ledger that
\* holds tokens.
C4_Witness ==
    /\ call.op = "transfer" /\ call.result = "InsufficientBalance"
    /\ call.caller = call.to
    /\ call.caller \notin DOMAIN balances
    /\ minted > 0

\* C5: a mint(to, amount) that does not overflow completes, for any caller,
\* sets balance(to) to its previous value plus amount and leaves every other
\* entry as it was (so amount 0 leaves the observable balance unchanged).
C5_MintEffect ==
    [][call'.op = "mint"
       => (/\ (Balance(balances, call'.to) + call'.amount <= U128_MAX)
                => (call'.result = "Ok")
           /\ (call'.result = "Ok")
                => (/\ Balance(balances', call'.to)
                         = Balance(balances, call'.to) + call'.amount
                    /\ DOMAIN balances' = (DOMAIN balances) \cup {call'.to}
                    /\ \A a \in (DOMAIN balances) \ {call'.to} :
                         balances'[a] = balances[a]))]_vars

\* A second mint to an account that already held tokens, by another caller.
C5_Witness ==
    /\ call.op = "mint" /\ call.result = "Ok"
    /\ call.amount > 0
    /\ call.caller # call.to
    /\ Balance(balances, call.to) > call.amount

\* C6: a transfer either commits both of its writes or none: when the credit
\* overflows the call aborts with the mapping unchanged, and a transfer that
\* does not return Ok changes nothing.
C6_TransferAllOrNothing ==
    [][call'.op = "transfer"
       => (/\ (/\ call'.amount <= Balance(balances, call'.caller)
               /\ Balance(balances, call'.to) + call'.amount > U128_MAX)
                => (call'.result = "Overflow")
           /\ (call'.result # "Ok") => (balances' = balances)
           /\ (call'.result = "Ok")
                => (/\ {call'.caller, call'.to} \subseteq DOMAIN balances'
                    /\ balances'[call'.to]
                         = Balance(balances, call'.to) + call'.amount
                    /\ (call'.caller # call'.to)
                         => (balances'[call'.caller]
                               = Balance(balances, call'.caller) - call'.amount)))]_vars

\* A transfer between two accounts that passed the sufficiency check and
\* aborted on the credit.
C6_Witness ==
    /\ call.op = "transfer" /\ call.result = "Overflow"
    /\ call.caller # call.to
    /\ call.amount > 0
    /\ Balance(balances, call.caller) >= call.amount

\* C7: a mint whose sum exceeds the maximum of the balance width aborts with
\* the mapping unchanged; a completed mint stores the exact sum.
C7_MintOverflow ==
    [][call'.op = "mint"
       => (/\ (Balance(balances, call'.to) + call'.amount > U128_MAX)
                => (call'.result = "Overflow" /\ balances' = balances)
           /\ (call'.result = "Overflow")
                => (Balance(balances, call'.to) + call'.amount > U128_MAX)
           /\ (call'.result = "Ok")
                => (Balance(balances', call'.to)
                      = Balance(balances, call'.to) + call'.amount))]_vars

C7_Witness ==
    /\ call.op = "mint" /\ call.result = "Overflow"
    /\ Balance(balances, call.to) + call.amount > U128_MAX
    /\ Balance(balances, call.to) > 0

\* C8: balance_of never fails, never changes the ledger, returns 0 for an
\* account that was never minted to or credited, and returns the same value
\* when called twice in a row for the same account.
C8_BalanceOfPureRead ==
    [][call'.op = "balance_of"
       => (/\ call'.result = "Ok"
           /\ call'.ret \in 0..U128_MAX
           /\ balances' = balances
           /\ (call'.to \notin credited) => (call'.ret = 0)
           /\ (call.op = "balance_of" /\ call.to = call'.to)
                => (call'.ret = call.ret))]_vars

\* A read of an account that has an entry (it made a transfer) but was never
\* credited, on a ledger that holds tokens.
C8_Witness ==
    /\ call.op = "balance_of"
    /\ call.to \notin credited
    /\ call.to \in DOMAIN balances
    /\ minted > 0

\* C9: mark_completed(index) never fails; with index < number of tasks it
\* sets completed on the task at that position and changes nothing else;
\* with index >= number of tasks it leaves the list unchanged.
C9_MarkCompleted ==
    todoCall.op = "mark_completed"
    => (/\ todoCall.result = "Ok"
        /\ Len(items) = Len(todoBefore)
        /\ IF todoCall.index < Len(todoBefore)
           THEN \A k \in 1..Len(todoBefore) :
                  /\ items[k].description = todoBefore[k].description
                  /\ items[k].completed
                       = (IF k = todoCall.index + 1 THEN TRUE
                          ELSE todoBefore[k].completed)
           ELSE items = todoBefore)

\* mark_completed with an index past the end of a one-task store.
C9_Witness ==
    /\ todoCall.op = "mark_completed"
    /\ todoCall.index > Len(todoBefore)
    /\ Len(todoBefore) = 1
    /\ items = todoBefore

\* C10: clear_completed leaves exactly the not-completed tasks of the previous
\* list, in their original order, so no task of the result is completed.
C10_ClearCompleted ==
    todoCall.op = "clear_completed"
    => (/\ items = SelectSeq(todoBefore, LAMBDA t : ~t.completed)
        /\ \A k \in 1..Len(items) : ~items[k].completed
        /\ Len(items)
             = Cardinality({k \in 1..Len(todoBefore) : ~todoBefore[k].completed}))

\* add x, add y, mark_completed(0), clear_completed.
C10_Witness ==
    /\ todoCall.op = "clear_completed"
    /\ todoBefore = <<TodoItem("x", TRUE), TodoItem("y", FALSE)>>
    /\ items = <<TodoItem("y", FALSE)>>

\* C11: add_item never fails and appends exactly one task, with the given
\* description and completed = false, at the end of the list; every task
\* already in the list keeps its position, description and flag.
C11_AddItem ==
    todoCall.op = "add_item"
    => (/\ todoCall.result = "Ok"
        /\ Len(items) = Len(todoBefore) + 1
        /\ items[Len(items)].description = todoCall.description
        /\ ~items[Len(items)].completed
        /\ \A k \in 1..Len(todoBefore) : items[k] = todoBefore[k])

\* An append behind a completed task.
C11_Witness ==
    /\ todoCall.op = "add_item"
    /\ Len(todoBefore) >= 1
    /\ todoBefore[1].completed
    /\ items[Len(items)].description # todoBefore[1].description

\* C13: no transfer reaches the "Balance underflow" abort.
C13_NoUnderflow == (call.op = "transfer") => (call.result # "Underflow")

\* A transfer of the caller's whole balance: the subtraction yields 0.
C13_Witness ==
    /\ call.op = "transfer" /\ call.result = "Ok"
    /\ call.caller # call.to
    /\ call.amount > 0
    /\ Balance(balances, call.caller) = 0

\* C14: every stored balance lies in 0 .. maximum of the balance width, and
\* a step changes a balance only to the exact integer sum or difference of
\* its previous value and the amount of the call.
C14_ExactArithmetic ==
    [][/\ \A a \in DOMAIN balances' : balances'[a] \in 0..U128_MAX
       /\ \A a \in Accounts :
            \/ Balance(balances', a) = Balance(balances, a)
            \/ /\ call'.result = "Ok"
               /\ a = call'.to
               /\ Balance(balances', a) = Balance(balances, a) + call'.amount
            \/ /\ call'.result = "Ok"
               /\ call'.op = "transfer"
               /\ a = call'.caller
               /\ Balance(balances', a) = Balance(balances, a) - call'.amount]_vars

\* A mint that brings an account exactly to the maximum of the width.
C14_Witness ==
    /\ call.op = "mint" /\ call.result = "Ok"
    /\ call.amount > 0
    /\ Balance(balances, call.to) = U128_MAX
    /\ call.amount < U128_MAX

\* C15: a transfer by C with recipient R changes no balance but those of C
\* and R and never decreases balance(R); a balance decreases only in a
\* successful transfer whose caller is that account.
C15_OnlyCallerDebited ==
    [][/\ (call'.op = "transfer")
            => (/\ \A a \in Accounts \ {call'.caller, call'.to} :
                     Balance(balances', a) = Balance(balances, a)
                /\ Balance(balances', call'.to) >= Balance(balances, call'.to))
       /\ \A a \in Accounts :
            (Balance(balances', a) < Balance(balances, a))
                => (/\ call'.op = "transfer"
                    /\ call'.result = "Ok"
                    /\ call'.caller = a)]_vars

\* A successful transfer between two accounts while a third holds tokens.
C15_Witness ==
    /\ call.op = "transfer" /\ call.result = "Ok"
    /\ call.caller # call.to
    /\ call.amount > 0
    /\ \E a \in Accounts \ {call.caller, call.to} : Balance(balances, a) > 0

\* C12: after either constructor of either contract, balance_of returns 0 for
\* every account and get_items returns a list of length 0.
C12_ConstructorsEmpty ==
    /\ (call.op \in Constructors)
         => (\A a \in Accounts : balance_of(balances, a).result = 0)
    /\ (todoCall.op \in Constructors)
         => (Len(get_items(items).ret) = 0)

\* Token::default and TodoList::new, the latter called by bob.
C12_Witness ==
    /\ call.op = "default"
    /\ todoCall.op = "new"
    /\ todoCall.caller = "bob"
    /\ owner = "bob"

\* C16: owner is the caller of the constructor and no message changes it; the
\* task list after any sequence of messages is the one an instance reaches
\* that received the same messages from other callers.
C16_OwnerInert ==
    /\ []((todoCall.op \in Constructors) => (owner = todoCall.caller))
    /\ [][owner' = owner]_vars
    /\ [](items = shadow.items)

\* A caller that is not the owner has just removed a task, on an instance
\* whose shadow has another owner.
C16_Witness ==
    /\ todoCall.op = "clear_completed"
    /\ todoCall.caller # owner
    /\ shadow.owner # owner
    /\ Len(items) < Len(todoBefore)
    /\ Len(items) > 0

\* Some strictly increasing choice of positions of `before` yields `after`,
\* and every position left out holds a completed task.
IsCompaction(before, after) ==
    \E f \in [1..Len(after) -> 1..Len(before)] :
        /\ \A j, k \in 1..Len(after) : (j < k) => (f[j] < f[k])
        /\ \A k \in 1..Len(after) : after[k] = before[f[k]]
        /\ \A i \in 1..Len(before) :
             (\A k \in 1..Len(after) : f[k] # i) => before[i].completed

\* C17: in every step but clear_completed each task keeps its position and
\* description and its flag never goes from true to false; clear_completed
\* keeps the remaining tasks as they were and in order, and removes only
\* completed ones.
C17_TaskLifecycle ==
    /\ (todoCall.op \notin Constructors /\ todoCall.op # "clear_completed")
         => (/\ Len(items) >= Len(todoBefore)
             /\ \A k \in 1..Len(todoBefore) :
                  /\ items[k].description = todoBefore[k].description
                  /\ todoBefore[k].completed => items[k].completed)
    /\ (todoCall.op = "clear_completed") => IsCompaction(todoBefore, items)

\* mark_completed on a task that was already completed.
C17_Witness ==
    /\ todoCall.op = "mark_completed"
    /\ todoCall.index < Len(todoBefore)
    /\ todoBefore[todoCall.index + 1].completed
    /\ items[todoCall.index + 1].completed
    /\ Len(items) >= 2

====
